---- MODULE Spec2Model ----
(***************************************************************************)
(* Model of the HTTP handlers of terraboard's api package (api/api.go).    *)
(*                                                                         *)
(* Three handlers are modelled, each with its own specification:           *)
(*   SpecLocks  - GetLocks, step by step (one step per blocking provider   *)
(*                call), so that a provider that never returns is visible; *)
(*   SpecState  - GetState, one step per request;                          *)
(*   SpecPlans  - ManagePlans and the handlers it dispatches to.           *)
(*                                                                         *)
(* The http.ResponseWriter of the request being handled is the variable w: *)
(* the sequence of payloads handed to io.WriteString, and status, the      *)
(* status code (200 unless http.Error sets another one).  A payload is the *)
(* JSON value that was marshalled, kept as a record so that an error       *)
(* object and a data body can be told apart.                               *)
(***************************************************************************)
EXTENDS Integers, Sequences, FiniteSets, TLC

VARIABLES
    pc,         \* GetLocks: "idle", "loop", "wait", "hung", "done"
    i,          \* GetLocks: index in sps of the provider of the current iteration
    allLocks,   \* GetLocks: the local map allLocks
    returned,   \* history: the lock maps the providers returned in this call, in order
    failed,     \* history: the provider whose call failed in this call and its error, or NoFailure
    prevKeys,   \* history: the keys of the mapping written by the latest successful call
    w,          \* payloads written to the ResponseWriter of the current request
    status,     \* status code of the current response
    dbCalls,    \* the calls made on the database by the current request, in order
    request,    \* the request being handled (method, path and query parameters)
    plans,      \* database: the plans table, oldest first
    versions,   \* database: for each version identifier, the lineage it belongs to
    called      \* history: the handlers ManagePlans called for the current request, in order

vars == <<pc, i, allLocks, returned, failed, prevKeys, w, status, dbCalls, request, plans, versions, called>>

----------------------------------------------------------------------------
(* Bounds *)

NumProviders == 2
NumKeys == 2
NumVersions == 3
MaxPlans == 2

\* sps []state.Provider: the configured providers, in the order of the slice
Providers == 1..NumProviders

KeyNames == <<"prod/vpc", "prod/db", "dev/vpc", "dev/db">>
\* lineage keys a provider may report a lock for
Keys == {KeyNames[n] : n \in 1..NumKeys}

\* state.LockInfo values: holder identity and acquisition timestamp
LockInfos == {[Who |-> "alice", Created |-> 1], [Who |-> "bob", Created |-> 2]}

\* map[string]state.LockInfo
LockMaps == UNION {[D -> LockInfos] : D \in SUBSET Keys}

EmptyMap == [k \in {} |-> [Who |-> "alice", Created |-> 1]]

\* error values a provider's GetLocks() may return; any provider may return any of them
ProviderErrors == {[msg |-> "connection refused"], [msg |-> "access denied"]}

\* error of json.Marshal
MarshalError == [msg |-> "json: error calling MarshalJSON"]

NoFailure == [provider |-> 0, err |-> [msg |-> ""]]

\* the nil error
Nil == [msg |-> "<nil>"]

NoRequest == [handler |-> "none"]

VersionNames == <<"v1", "v2", "v3", "v4", "v5">>
\* version identifiers, oldest first
VersionIDs == {VersionNames[n] : n \in 1..NumVersions}

\* a version identifier recorded for no lineage
NoLineage == ""

----------------------------------------------------------------------------
(* JSONError *)

\* fmt.Sprintf("%v", err): the text of the error
Sprintf(err) == err.msg

\* the object JSONError marshals and writes
JSONError(message, err) == [error |-> message, details |-> Sprintf(err)]

IsErrorObject(p) == "error" \in DOMAIN p

----------------------------------------------------------------------------
(* GetLocks *)

\* for k, v := range locks { allLocks[k] = v }   (mutant: replace by first writer wins)
MergeLocks_FirstWins(all, locks) ==
    [k \in DOMAIN all \cup DOMAIN locks |->
        IF k \in DOMAIN all THEN all[k] ELSE locks[k]]

\* for k, v := range locks { allLocks[k] = v }   (mutant: allLocks = locks)
MergeLocks_Replace(all, locks) == locks

\* for k, v := range locks { allLocks[k] = v }
MergeLocks(all, locks) ==
    [k \in DOMAIN all \cup DOMAIN locks |->
        IF k \in DOMAIN locks THEN locks[k] ELSE all[k]]

\* the body written on success: json.Marshal(allLocks)
LocksBody(all) == [locks |-> all]

\* mutant of GetLocksStart: allLocks outlives the call
GetLocksStart_Persisted ==
    /\ pc \in {"idle", "done"}
    /\ pc' = "loop"
    /\ i' = 1
    /\ allLocks' = allLocks
    /\ returned' = <<>>
    /\ failed' = NoFailure
    /\ prevKeys' = IF pc = "done" /\ Len(w) = 1 /\ ~IsErrorObject(w[1])
                   THEN DOMAIN w[1].locks ELSE prevKeys
    /\ w' = <<>>
    /\ status' = 200
    /\ request' = [handler |-> "GetLocks"]
    /\ UNCHANGED <<dbCalls, plans, versions, called>>

\* a request arrives: allLocks := make(map[string]state.LockInfo), fresh ResponseWriter
GetLocksStart ==
    /\ pc \in {"idle", "done"}
    /\ pc' = "loop"
    /\ i' = 1
    /\ allLocks' = EmptyMap
    /\ returned' = <<>>
    /\ failed' = NoFailure
    /\ prevKeys' = IF pc = "done" /\ Len(w) = 1 /\ ~IsErrorObject(w[1])
                   THEN DOMAIN w[1].locks ELSE prevKeys
    /\ w' = <<>>
    /\ status' = 200
    /\ request' = [handler |-> "GetLocks"]
    /\ UNCHANGED <<dbCalls, plans, versions, called>>

\* for _, sp := range sps { locks, err := sp.GetLocks(): the call is issued and blocks
CallProvider ==
    /\ pc = "loop"
    /\ i <= NumProviders
    /\ pc' = "wait"
    /\ UNCHANGED <<i, allLocks, returned, failed, prevKeys, w, status, dbCalls, request, plans, versions, called>>

\* the call returns locks, nil: they are merged and the loop goes on
ProviderReturnsLocks(locks) ==
    /\ pc = "wait"
    /\ allLocks' = MergeLocks(allLocks, locks)
    /\ returned' = Append(returned, locks)
    /\ i' = i + 1
    /\ pc' = "loop"
    /\ UNCHANGED <<failed, prevKeys, w, status, dbCalls, request, plans, versions, called>>

\* the response to a failure of provider p with error err: JSONError(w, "Failed to get locks on a provider", err)
ErrorResponse(p, err) == JSONError("Failed to get locks on a provider", err)

\* mutant of ProviderReturnsError: the return after JSONError is missing
ProviderReturnsError_NoReturn(err) ==
    /\ pc = "wait"
    /\ w' = Append(w, ErrorResponse(i, err))
    /\ failed' = [provider |-> i, err |-> err]
    /\ i' = i + 1
    /\ pc' = "loop"
    /\ UNCHANGED <<allLocks, returned, prevKeys, status, dbCalls, request, plans, versions, called>>

\* the call returns an error: JSONError and return
ProviderReturnsError(err) ==
    /\ pc = "wait"
    /\ w' = Append(w, ErrorResponse(i, err))
    /\ failed' = [provider |-> i, err |-> err]
    /\ pc' = "done"
    /\ UNCHANGED <<i, allLocks, returned, prevKeys, status, dbCalls, request, plans, versions, called>>

\* the call never returns: GetLocks sets no deadline on it and stays blocked
ProviderHangs ==
    /\ pc = "wait"
    /\ pc' = "hung"
    /\ UNCHANGED <<i, allLocks, returned, failed, prevKeys, w, status, dbCalls, request, plans, versions, called>>

\* after the loop: json.Marshal(allLocks), then the body or the marshal error is written
GetLocksWrite(marshalOk) ==
    /\ pc = "loop"
    /\ i > NumProviders
    /\ w' = Append(w, IF marshalOk THEN LocksBody(allLocks)
                      ELSE JSONError("Failed to marshal locks", MarshalError))
    /\ pc' = "done"
    /\ UNCHANGED <<i, allLocks, returned, failed, prevKeys, status, dbCalls, request, plans, versions, called>>

Init ==
    /\ pc = "idle"
    /\ i = 1
    /\ allLocks = EmptyMap
    /\ returned = <<>>
    /\ failed = NoFailure
    /\ prevKeys = {}
    /\ w = <<>>
    /\ status = 200
    /\ dbCalls = <<>>
    /\ request = NoRequest
    /\ plans = <<>>
    /\ versions = [v \in VersionIDs |-> NoLineage]
    /\ called = <<>>

NextLocks ==
    \/ GetLocksStart
    \/ CallProvider
    \/ \E locks \in LockMaps : ProviderReturnsLocks(locks)
    \/ \E err \in ProviderErrors : ProviderReturnsError(err)
    \/ ProviderHangs
    \/ \E marshalOk \in BOOLEAN : GetLocksWrite(marshalOk)

SpecLocks == Init /\ [][NextLocks]_vars

\* every step that is possible is eventually taken: the handler's goroutine keeps running
FairSpecLocks == Init /\ [][NextLocks]_vars /\ WF_vars(NextLocks)

----------------------------------------------------------------------------
(* Properties of GetLocks *)

\* the call has ended and wrote the marshalled allLocks as its only payload
Success == pc = "done" /\ Len(w) = 1 /\ ~IsErrorObject(w[1])

\* the call has ended because a provider's GetLocks() returned an error
ProviderFailed == pc = "done" /\ failed # NoFailure

\* the keys the providers reported during this call
ReportedKeys == UNION {DOMAIN returned[j] : j \in 1..Len(returned)}

\* provider j is the last one in the provider sequence that reported key k in this call
IsLastReporter(j, k) ==
    /\ j \in 1..Len(returned)
    /\ k \in DOMAIN returned[j]
    /\ \A m \in (j + 1)..Len(returned) : k \notin DOMAIN returned[m]

\* C1: when a provider's GetLocks() call returns an error, the aggregation is aborted:
\* no later provider is called, and the response is the error object only; no lock
\* mapping is written, not even the locks collected from earlier providers.
C1_ProviderErrorAborts ==
    ProviderFailed =>
        /\ w = <<JSONError("Failed to get locks on a provider", failed.err)>>
        /\ Len(returned) = failed.provider - 1
        /\ \A n \in 1..Len(w) : "locks" \notin DOMAIN w[n]

\* a later provider failed after an earlier one had returned locks
C1_Witness ==
    /\ ProviderFailed
    /\ failed.provider > 1
    /\ DOMAIN returned[1] # {}
    /\ allLocks # EmptyMap

\* C2: when no provider fails and two providers report the same lineage key with
\* different holders, the written mapping holds under that key the LockInfo of the
\* last provider of the sequence that reported the key.
C2_LastProviderWins ==
    Success =>
        \A k \in Keys : \A j \in 1..Len(returned) :
            IsLastReporter(j, k) => k \in DOMAIN w[1].locks /\ w[1].locks[k] = returned[j][k]

\* two providers reported the same key with different holders
C2_Witness ==
    /\ Success
    /\ \E k \in Keys : \E j1, j2 \in 1..Len(returned) :
        /\ j1 < j2
        /\ k \in DOMAIN returned[j1] \cap DOMAIN returned[j2]
        /\ returned[j1][k].Who # returned[j2][k].Who
        /\ IsLastReporter(j2, k)

\* C3: when no provider fails, the written mapping has exactly the keys reported by the
\* providers: one entry for a key two providers reported, and no reported key is missing.
C3_OneEntryPerReportedKey ==
    Success =>
        /\ DOMAIN w[1].locks = ReportedKeys
        /\ w[1].locks = allLocks
        /\ Len(returned) = NumProviders

\* two providers reported the same lock (same holder and timestamp) for one key, and
\* another key was reported by the first provider only
C3_Witness ==
    /\ Success
    /\ \E k1, k2 \in Keys :
        /\ k1 # k2
        /\ k1 \in DOMAIN returned[1] \cap DOMAIN returned[2]
        /\ returned[1][k1] = returned[2][k1]
        /\ k2 \in DOMAIN returned[1] \ DOMAIN returned[2]
        /\ DOMAIN w[1].locks = {k1, k2}

\* C4: the error response written when a provider fails identifies the provider: no
\* other provider's failure gives the same response.
C4_ErrorIdentifiesProvider ==
    ProviderFailed =>
        \A p \in Providers : \A err \in ProviderErrors :
            w = <<ErrorResponse(p, err)>> => p = failed.provider

\* C5: a call of GetLocks that is waiting for a provider eventually ends, also when
\* that provider's call never returns.
C5_CompletesDespiteHungProvider == (pc = "wait") ~> (pc = "done")

\* C9: the mapping a successful call writes has a key only if a provider reported a
\* lock for that key during that same call.
C9_NoLockPersisted ==
    Success => \A k \in DOMAIN w[1].locks : \E j \in 1..Len(returned) : k \in DOMAIN returned[j]

\* a key of the previous successful result, reported by no provider in this call, is
\* absent from this call's result
C9_Witness ==
    /\ Success
    /\ \E k \in prevKeys : k \notin ReportedKeys /\ k \notin DOMAIN w[1].locks

----------------------------------------------------------------------------
(* GetState *)

\* position of a version identifier in the history, oldest first
VersionIndex(v) == CHOOSE n \in 1..NumVersions : VersionNames[n] = v

\* the versions recorded for a lineage
VersionsOf(lineage) == {v \in VersionIDs : versions[v] = lineage}

\* d.DefaultVersion(lineage): the most recent version of the lineage, an error if it has none
DefaultVersion(lineage) ==
    IF VersionsOf(lineage) = {}
    THEN [version |-> "", err |-> [msg |-> "unknown lineage"]]
    ELSE [version |-> CHOOSE v \in VersionsOf(lineage) :
                          \A u \in VersionsOf(lineage) : VersionIndex(u) <= VersionIndex(v),
          err |-> Nil]

\* the zero value of state.State
ZeroState == [Lineage |-> "", Version |-> ""]

\* d.GetState(lineage, versionID): the stored state; it returns no error, and the zero
\* State when no version versionID is recorded for the lineage
D_GetState(lineage, versionID) ==
    IF versionID \in VersionsOf(lineage)
    THEN [Lineage |-> lineage, Version |-> versionID]
    ELSE ZeroState

\* mutant of UseDefault: the default version is looked up for every request
UseDefault_Always(versionID) == TRUE

\* if versionID == ""
UseDefault(versionID) == versionID = ""

\* the body written on success: json.Marshal(state)
StateBody(state) == [state |-> state]

\* GetState handles one request for path parameter lineage and query parameter versionid
GetState(lineage, versionID, marshalOk) ==
    LET def == DefaultVersion(lineage)
        lookup == <<[op |-> "DefaultVersion", args |-> <<lineage>>]>>
        resolved == IF UseDefault(versionID) THEN def.version ELSE versionID
    IN  /\ request' = [handler |-> "GetState", lineage |-> lineage, versionid |-> versionID]
        /\ status' = 200
        /\ called' = <<>>
        /\ IF UseDefault(versionID) /\ def.err # Nil
           THEN /\ dbCalls' = lookup
                /\ w' = <<JSONError("Failed to retrieve default version", def.err)>>
           ELSE /\ dbCalls' = (IF UseDefault(versionID) THEN lookup ELSE <<>>)
                                \o <<[op |-> "GetState", args |-> <<lineage, resolved>>]>>
                /\ w' = <<IF marshalOk THEN StateBody(D_GetState(lineage, resolved))
                          ELSE JSONError("Failed to marshal state", MarshalError)>>
        /\ UNCHANGED <<pc, i, allLocks, returned, failed, prevKeys, plans, versions>>

\* the database holds any set of versions, each recorded for one lineage
InitState ==
    /\ pc = "idle"
    /\ i = 1
    /\ allLocks = EmptyMap
    /\ returned = <<>>
    /\ failed = NoFailure
    /\ prevKeys = {}
    /\ w = <<>>
    /\ status = 200
    /\ dbCalls = <<>>
    /\ request = NoRequest
    /\ plans = <<>>
    /\ versions \in [VersionIDs -> Keys \cup {NoLineage}]
    /\ called = <<>>

NextState ==
    \E lineage \in Keys : \E versionID \in VersionIDs \cup {""} : \E marshalOk \in BOOLEAN :
        GetState(lineage, versionID, marshalOk)

SpecState == InitState /\ [][NextState]_vars

----------------------------------------------------------------------------
(* Properties of GetState *)

HandledGetState == request.handler = "GetState"

\* C6: GetState looks up the lineage's default version if and only if the request's
\* versionid is empty; with a non-empty versionid the only database call is the load of
\* the state of (lineage, versionid), and with an empty one the state loaded is that of
\* the default version.
C6_DefaultVersionIffEmpty ==
    HandledGetState =>
        LET lookup == [op |-> "DefaultVersion", args |-> <<request.lineage>>]
            def == DefaultVersion(request.lineage)
        IN  /\ (\E n \in 1..Len(dbCalls) : dbCalls[n].op = "DefaultVersion")
                   <=> request.versionid = ""
            /\ request.versionid # "" =>
                   dbCalls = <<[op |-> "GetState",
                                args |-> <<request.lineage, request.versionid>>]>>
            /\ (request.versionid = "" /\ def.err = Nil) =>
                   dbCalls = <<lookup, [op |-> "GetState",
                                        args |-> <<request.lineage, def.version>>]>>
            /\ (request.versionid = "" /\ def.err # Nil) => dbCalls = <<lookup>>

\* a request named a version of the lineage that is not the default one, and got its state
C6_Witness ==
    /\ HandledGetState
    /\ request.versionid \in VersionsOf(request.lineage)
    /\ request.versionid # DefaultVersion(request.lineage).version
    /\ w = <<StateBody([Lineage |-> request.lineage, Version |-> request.versionid])>>

\* C7: a request with a non-empty versionid that does not belong to the lineage gets an
\* error and no state body.
C7_ForeignVersionFails ==
    (/\ HandledGetState
     /\ request.versionid # ""
     /\ request.versionid \notin VersionsOf(request.lineage))
        => \A n \in 1..Len(w) : IsErrorObject(w[n])

\* C8: every request for a lineage with no recorded version gets an error and no state
\* body.
C8_UnknownLineageFails ==
    (HandledGetState /\ VersionsOf(request.lineage) = {})
        => (Len(w) = 1 /\ IsErrorObject(w[1]))

----------------------------------------------------------------------------
(* ManagePlans *)

Methods == {"GET", "POST", "PUT", "DELETE"}

\* the bodies a client may post: a plan, named by its identifier
PlanBodies == {"plan-1", "plan-2"}

\* the zero value of db.Plan
ZeroPlan == [ID |-> ""]

\* db.GetPlan(id): the plan with that identifier, the zero Plan if there is none
D_GetPlan(id) ==
    IF \E n \in 1..Len(plans) : plans[n] = id THEN [ID |-> id] ELSE ZeroPlan

\* db.GetPlans(lineage, limit, page): plans, currentPage, total
D_GetPlans == [plans |-> plans, page |-> 1, total |-> Len(plans)]

\* GetPlan: id := planid; db.GetPlan(id); marshal and write
GetPlan(planid, marshalOk) ==
    /\ dbCalls' = <<[op |-> "GetPlan", args |-> <<planid>>]>>
    /\ w' = <<IF marshalOk THEN [plan |-> D_GetPlan(planid)]
              ELSE JSONError("Failed to marshal plan", MarshalError)>>
    /\ status' = 200
    /\ plans' = plans

\* GetPlans: db.GetPlans; the response object is marshalled and written
GetPlans(marshalOk) ==
    /\ dbCalls' = <<[op |-> "GetPlans", args |-> <<>>]>>
    /\ w' = <<IF marshalOk THEN D_GetPlans
              ELSE JSONError("Failed to marshal plans", MarshalError)>>
    /\ status' = 200
    /\ plans' = plans

\* SubmitPlan: the body is read, then inserted; nothing is written on success
SubmitPlan(readOk, body, insertOk) ==
    /\ status' = 200
    /\ IF ~readOk
       THEN /\ dbCalls' = <<>>
            /\ w' = <<JSONError("Failed to read body during plan submit",
                                [msg |-> "unexpected EOF"])>>
            /\ plans' = plans
       ELSE /\ dbCalls' = <<[op |-> "InsertPlan", args |-> <<body>>]>>
            /\ IF insertOk
               THEN /\ Len(plans) < MaxPlans
                    /\ plans' = Append(plans, body)
                    /\ w' = <<>>
               ELSE /\ plans' = plans
                    /\ w' = <<JSONError("Failed to insert plan to db",
                                        [msg |-> "insert failed"])>>

\* http.Error(w, "Invalid request method.", 405)
MethodNotAllowed ==
    /\ status' = 405
    /\ w' = <<[text |-> "Invalid request method."]>>
    /\ dbCalls' = <<>>
    /\ plans' = plans

\* mutant of Route: the test of the method for POST is missing
Route_NoPostTest(method, planid) ==
    IF method = "GET"
    THEN IF planid # "" THEN "GetPlan" ELSE "GetPlans"
    ELSE "SubmitPlan"

\* the branch ManagePlans takes
Route(method, planid) ==
    IF method = "GET"
    THEN IF planid # "" THEN "GetPlan" ELSE "GetPlans"
    ELSE IF method = "POST" THEN "SubmitPlan" ELSE "http.Error"

\* ManagePlans handles one request on /api/plans
ManagePlans(method, planid, body, readOk, insertOk, marshalOk) ==
    /\ request' = [handler |-> "ManagePlans", method |-> method, planid |-> planid]
    /\ CASE Route(method, planid) = "GetPlan" ->
                called' = <<"GetPlan">> /\ GetPlan(planid, marshalOk)
         [] Route(method, planid) = "GetPlans" ->
                called' = <<"GetPlans">> /\ GetPlans(marshalOk)
         [] Route(method, planid) = "SubmitPlan" ->
                called' = <<"SubmitPlan">> /\ SubmitPlan(readOk, body, insertOk)
         [] OTHER ->
                called' = <<>> /\ MethodNotAllowed
    /\ UNCHANGED <<pc, i, allLocks, returned, failed, prevKeys, versions>>

NextPlans ==
    \E method \in Methods : \E planid \in PlanBodies \cup {""} : \E body \in PlanBodies :
        \E readOk, insertOk, marshalOk \in BOOLEAN :
            ManagePlans(method, planid, body, readOk, insertOk, marshalOk)

SpecPlans == Init /\ [][NextPlans]_vars

----------------------------------------------------------------------------
(* Properties of ManagePlans *)

HandledManagePlans == request.handler = "ManagePlans"

\* the operations the current request made on the database
DbOps == {dbCalls[n].op : n \in 1..Len(dbCalls)}

====
